---- MODULE Spec2Model ----
(***************************************************************************)
(* Job-market pipeline: the incremental loader of the DAG                  *)
(* (dags/job_collection_dag.py, load_raw_to_db) and the cleaning pipeline  *)
(* (scrapers/data_cleaning.py, clean_and_load).                            *)
(*                                                                         *)
(* Conventions.  A nullable cell is a tuple: <<>> is NaN/None/NULL and     *)
(* <<v>> is the value v.  A string is a sequence of one-character strings, *)
(* so that split, strip, upper and substring search are computed.  A       *)
(* DataFrame or a table is a sequence of records, in row order.            *)
(***************************************************************************)
EXTENDS Integers, Sequences, FiniteSets, TLC

(* ---------------------------------------------------------------------- *)
(* Nullable cells                                                          *)
(* ---------------------------------------------------------------------- *)
NaN == <<>>
Some(v) == <<v>>
isna(x) == x = NaN
notna(x) == x # NaN
val(x) == x[1]

(* ---------------------------------------------------------------------- *)
(* Strings as character sequences                                          *)
(* ---------------------------------------------------------------------- *)
LowerCase == <<"a","b","c","d","e","f","g","h","i","j","k","l","m","n","o","p","q","r","s","t","u","v","w","x","y","z">>
UpperCase == <<"A","B","C","D","E","F","G","H","I","J","K","L","M","N","O","P","Q","R","S","T","U","V","W","X","Y","Z">>

UpperCh(c) == IF \E i \in 1..26 : LowerCase[i] = c
              THEN UpperCase[CHOOSE i \in 1..26 : LowerCase[i] = c]
              ELSE c
LowerCh(c) == IF \E i \in 1..26 : UpperCase[i] = c
              THEN LowerCase[CHOOSE i \in 1..26 : UpperCase[i] = c]
              ELSE c
\* str.upper() / str.lower()
Upper(s) == [i \in 1..Len(s) |-> UpperCh(s[i])]
Lower(s) == [i \in 1..Len(s) |-> LowerCh(s[i])]

IsSpace(c) == c = " "
\* str.strip(): drop leading and trailing whitespace
Strip(s) ==
  IF \A i \in 1..Len(s) : IsSpace(s[i]) THEN <<>>
  ELSE LET a == CHOOSE i \in 1..Len(s) :
                  ~IsSpace(s[i]) /\ \A j \in 1..(i-1) : IsSpace(s[j])
           b == CHOOSE i \in 1..Len(s) :
                  ~IsSpace(s[i]) /\ \A j \in (i+1)..Len(s) : IsSpace(s[j])
       IN SubSeq(s, a, b)

\* pattern in value (substring test)
Contains(s, sub) ==
  \E i \in 1..(Len(s) - Len(sub) + 1) : SubSeq(s, i, i + Len(sub) - 1) = sub
\* Series.str.contains(p1|p2|..., case=False, na=False) on one cell
StrContainsAny(cell, subs) ==
  notna(cell) /\ \E sub \in subs : Contains(Lower(val(cell)), Lower(sub))

(* ---------------------------------------------------------------------- *)
(* data_cleaning.py: state table                                           *)
(* ---------------------------------------------------------------------- *)
STATE_NAME_TO_CODE ==
  { <<<<"A","l","a","b","a","m","a">>, <<"A","L">>>>,
    <<<<"A","l","a","s","k","a">>, <<"A","K">>>>,
    <<<<"A","r","i","z","o","n","a">>, <<"A","Z">>>>,
    <<<<"A","r","k","a","n","s","a","s">>, <<"A","R">>>>,
    <<<<"C","a","l","i","f","o","r","n","i","a">>, <<"C","A">>>>,
    <<<<"C","o","l","o","r","a","d","o">>, <<"C","O">>>>,
    <<<<"C","o","n","n","e","c","t","i","c","u","t">>, <<"C","T">>>>,
    <<<<"D","e","l","a","w","a","r","e">>, <<"D","E">>>>,
    <<<<"F","l","o","r","i","d","a">>, <<"F","L">>>>,
    <<<<"G","e","o","r","g","i","a">>, <<"G","A">>>>,
    <<<<"H","a","w","a","i","i">>, <<"H","I">>>>,
    <<<<"I","d","a","h","o">>, <<"I","D">>>>,
    <<<<"I","l","l","i","n","o","i","s">>, <<"I","L">>>>,
    <<<<"I","n","d","i","a","n","a">>, <<"I","N">>>>,
    <<<<"I","o","w","a">>, <<"I","A">>>>,
    <<<<"K","a","n","s","a","s">>, <<"K","S">>>>,
    <<<<"K","e","n","t","u","c","k","y">>, <<"K","Y">>>>,
    <<<<"L","o","u","i","s","i","a","n","a">>, <<"L","A">>>>,
    <<<<"M","a","i","n","e">>, <<"M","E">>>>,
    <<<<"M","a","r","y","l","a","n","d">>, <<"M","D">>>>,
    <<<<"M","a","s","s","a","c","h","u","s","e","t","t","s">>, <<"M","A">>>>,
    <<<<"M","i","c","h","i","g","a","n">>, <<"M","I">>>>,
    <<<<"M","i","n","n","e","s","o","t","a">>, <<"M","N">>>>,
    <<<<"M","i","s","s","i","s","s","i","p","p","i">>, <<"M","S">>>>,
    <<<<"M","i","s","s","o","u","r","i">>, <<"M","O">>>>,
    <<<<"M","o","n","t","a","n","a">>, <<"M","T">>>>,
    <<<<"N","e","b","r","a","s","k","a">>, <<"N","E">>>>,
    <<<<"N","e","v","a","d","a">>, <<"N","V">>>>,
    <<<<"N","e","w"," ","H","a","m","p","s","h","i","r","e">>, <<"N","H">>>>,
    <<<<"N","e","w"," ","J","e","r","s","e","y">>, <<"N","J">>>>,
    <<<<"N","e","w"," ","M","e","x","i","c","o">>, <<"N","M">>>>,
    <<<<"N","e","w"," ","Y","o","r","k">>, <<"N","Y">>>>,
    <<<<"N","o","r","t","h"," ","C","a","r","o","l","i","n","a">>, <<"N","C">>>>,
    <<<<"N","o","r","t","h"," ","D","a","k","o","t","a">>, <<"N","D">>>>,
    <<<<"O","h","i","o">>, <<"O","H">>>>,
    <<<<"O","k","l","a","h","o","m","a">>, <<"O","K">>>>,
    <<<<"O","r","e","g","o","n">>, <<"O","R">>>>,
    <<<<"P","e","n","n","s","y","l","v","a","n","i","a">>, <<"P","A">>>>,
    <<<<"R","h","o","d","e"," ","I","s","l","a","n","d">>, <<"R","I">>>>,
    <<<<"S","o","u","t","h"," ","C","a","r","o","l","i","n","a">>, <<"S","C">>>>,
    <<<<"S","o","u","t","h"," ","D","a","k","o","t","a">>, <<"S","D">>>>,
    <<<<"T","e","n","n","e","s","s","e","e">>, <<"T","N">>>>,
    <<<<"T","e","x","a","s">>, <<"T","X">>>>,
    <<<<"U","t","a","h">>, <<"U","T">>>>,
    <<<<"V","e","r","m","o","n","t">>, <<"V","T">>>>,
    <<<<"V","i","r","g","i","n","i","a">>, <<"V","A">>>>,
    <<<<"W","a","s","h","i","n","g","t","o","n">>, <<"W","A">>>>,
    <<<<"W","e","s","t"," ","V","i","r","g","i","n","i","a">>, <<"W","V">>>>,
    <<<<"W","i","s","c","o","n","s","i","n">>, <<"W","I">>>>,
    <<<<"W","y","o","m","i","n","g">>, <<"W","Y">>>>,
    <<<<"D","i","s","t","r","i","c","t"," ","o","f"," ","C","o","l","u","m","b","i","a">>, <<"D","C">>>> }

STATE_CODES == { p[2] : p \in STATE_NAME_TO_CODE }
state_names == { p[1] : p \in STATE_NAME_TO_CODE }
CodeOfName(name) == (CHOOSE p \in STATE_NAME_TO_CODE : p[1] = name)[2]


(* ---------------------------------------------------------------------- *)
(* data_cleaning.py: clean_empty_values                                    *)
(* ---------------------------------------------------------------------- *)
\* the four regexes: ^\s*$, (?i)^null$, (?i)^none$, (?i)^nan$
EmptyLike(s) ==
  \/ \A i \in 1..Len(s) : IsSpace(s[i])
  \/ Lower(s) \in { <<"n","u","l","l">>, <<"n","o","n","e">>, <<"n","a","n">> }

CleanCell(c) == IF notna(c) /\ EmptyLike(val(c)) THEN NaN ELSE c

\* df.replace(..., np.nan, regex=True) touches every string column of a row
clean_empty_row(r) ==
  [r EXCEPT !.source = CleanCell(@), !.location = CleanCell(@),
            !.search_location = CleanCell(@), !.salary_text = CleanCell(@),
            !.job_type = CleanCell(@)]

clean_empty_values(df) == [i \in 1..Len(df) |-> clean_empty_row(df[i])]

(* ---------------------------------------------------------------------- *)
(* data_cleaning.py: clean_location                                        *)
(* ---------------------------------------------------------------------- *)
Comma == ","
HasComma(s) == \E i \in 1..Len(s) : s[i] = Comma
FirstComma(s) ==
  CHOOSE i \in 1..Len(s) : s[i] = Comma /\ \A j \in 1..(i-1) : s[j] # Comma

\* str.split(',', n=1, expand=True): <<city, remainder>>, remainder None
\* when the text has no comma
SplitLocation(loc) ==
  IF isna(loc) THEN <<NaN, NaN>>
  ELSE IF HasComma(val(loc))
       THEN LET k == FirstComma(val(loc))
            IN << Some(SubSeq(val(loc), 1, k - 1)),
                  Some(SubSeq(val(loc), k + 1, Len(val(loc)))) >>
       ELSE << loc, NaN >>

\* cell.str.strip().str.upper().isin(STATE_CODES)
IsCodeCell(cell) == notna(cell) /\ Upper(Strip(val(cell))) \in STATE_CODES
CodeCell(cell) == Some(Upper(Strip(val(cell))))

clean_location_row(r) ==
  LET parts == SplitLocation(r.location)
      location_city == parts[1]
      location2 == IF isna(parts[2]) THEN NaN ELSE Some(Strip(val(parts[2])))
      state1 == IF IsCodeCell(location2) THEN CodeCell(location2) ELSE NaN
      location_else == IF isna(state1) THEN location2 ELSE NaN
      mask_name == /\ isna(state1)
                   /\ notna(location_else)
                   /\ ~(\E i \in 1..Len(val(location_else)) :
                          val(location_else)[i] \in {"|", ","})
                   /\ val(location_else) \in state_names
      state2 == IF mask_name THEN Some(CodeOfName(val(location_else)))
                ELSE state1
      mask_search == /\ isna(state2)
                     /\ notna(r.search_location)
                     /\ IsCodeCell(r.search_location)
      state3 == IF mask_search THEN CodeCell(r.search_location) ELSE state2
  IN [location_city |-> location_city, location_state |-> state3] @@ r

\* assigning the split to two columns raises ValueError when the split
\* produced a single column, i.e. when no row's location has a comma
SplitRaises(df) ==
  \A i \in 1..Len(df) :
    IF isna(df[i].location) THEN TRUE ELSE ~HasComma(val(df[i].location))

clean_location(df) == [i \in 1..Len(df) |-> clean_location_row(df[i])]

(* ---------------------------------------------------------------------- *)
(* data_cleaning.py: extract_job_type_clean                                *)
(* ---------------------------------------------------------------------- *)
clean_mappings ==
  << << <<"F","u","l","l","-","t","i","m","e">>, << <<"f","u","l","l","-","t","i","m","e">>, <<"f","u","l","l"," ","t","i","m","e">>, <<"f","u","l","l","t","i","m","e">>, <<"f","t">>, <<"p","e","r","m","a","n","e","n","t">> >> >>,
     << <<"P","a","r","t","-","t","i","m","e">>, << <<"p","a","r","t","-","t","i","m","e">>, <<"p","a","r","t"," ","t","i","m","e">>, <<"p","a","r","t","t","i","m","e">>, <<"p","t">> >> >>,
     << <<"C","o","n","t","r","a","c","t">>, << <<"c","o","n","t","r","a","c","t">>, <<"c","o","n","t","r","a","c","t","o","r">>, <<"c","o","n","t","r","a","c","t","u","a","l">> >> >>,
     << <<"T","e","m","p","o","r","a","r","y">>, << <<"t","e","m","p","o","r","a","r","y">>, <<"t","e","m","p">> >> >>,
     << <<"I","n","t","e","r","n","s","h","i","p">>, << <<"i","n","t","e","r","n","s","h","i","p">>, <<"i","n","t","e","r","n">> >> >> >>

\* the category whose keyword occurs first in the text
extract_type_EarliestInText(value) ==
  IF isna(value) THEN NaN
  ELSE LET value_lower == Lower(val(value))
           at(k, i) == \E j \in 1..Len(clean_mappings[k][2]) :
                         LET pat == clean_mappings[k][2][j]
                         IN /\ i + Len(pat) - 1 <= Len(value_lower)
                            /\ SubSeq(value_lower, i, i + Len(pat) - 1) = pat
           hits == { << i, k >> \in (1..Len(value_lower)) \X (1..Len(clean_mappings)) :
                       at(k, i) }
       IN IF hits = {} THEN NaN
          ELSE LET h == CHOOSE h \in hits : \A g \in hits :
                          h[1] < g[1] \/ (h[1] = g[1] /\ h[2] <= g[2])
               IN Some(clean_mappings[h[2]][1])

extract_type(value) ==
  IF isna(value) THEN NaN
  ELSE LET value_lower == Lower(val(value))
           hit(k) == \E j \in 1..Len(clean_mappings[k][2]) :
                       Contains(value_lower, clean_mappings[k][2][j])
       IN IF \E k \in 1..Len(clean_mappings) : hit(k)
          THEN LET k0 == CHOOSE k \in 1..Len(clean_mappings) :
                           hit(k) /\ \A m \in 1..(k-1) : ~hit(m)
               IN Some(clean_mappings[k0][1])
          ELSE NaN

extract_job_type_clean(df) ==
  [i \in 1..Len(df) |-> [df[i] EXCEPT !.job_type = extract_type(@)]]

(* ---------------------------------------------------------------------- *)
(* data_cleaning.py: fix_k_notation .. fix_weekly_wages, drop_per_unit     *)
(* ---------------------------------------------------------------------- *)
Scale(cell, factor) == IF isna(cell) THEN NaN ELSE Some(val(cell) * factor)

\* one rule on one row: cue in salary_text, salary_min present and < limit
\* the guard without the magnitude test
needs_fix_CueOnly(r, cues, limit) ==
  /\ StrContainsAny(r.salary_text, cues)
  /\ notna(r.salary_min)

needs_fix(r, cues, limit) ==
  /\ StrContainsAny(r.salary_text, cues)
  /\ notna(r.salary_min)
  /\ val(r.salary_min) < limit

fix_row(r, cues, limit, factor) ==
  IF needs_fix(r, cues, limit)
  THEN [r EXCEPT !.salary_min = Scale(@, factor),
                 !.salary_max = Scale(@, factor)]
  ELSE r

KCues == { <<"k">> }
HourlyCues == { <<"p","e","r"," ","h","o","u","r">>, <<"/","h","o","u","r">>, <<"a","n"," ","h","o","u","r">> }
MonthlyCues == { <<"p","e","r"," ","m","o","n","t","h">>, <<"/","m","o","n","t","h">>, <<"a"," ","m","o","n","t","h">> }
WeeklyCues == { <<"p","e","r"," ","w","e","e","k">>, <<"/","w","e","e","k">>, <<"a"," ","w","e","e","k">> }
PerUnitCues == { <<"p","e","r"," ","u","n","i","t">> }

fix_k_notation(df) ==
  [i \in 1..Len(df) |-> fix_row(df[i], KCues, 1000, 1000)]
fix_hourly_wages(df) ==
  [i \in 1..Len(df) |-> fix_row(df[i], HourlyCues, 200, 2080)]
fix_monthly_wages(df) ==
  [i \in 1..Len(df) |-> fix_row(df[i], MonthlyCues, 20000, 12)]
fix_weekly_wages(df) ==
  [i \in 1..Len(df) |-> fix_row(df[i], WeeklyCues, 5000, 52)]

\* the test with case=True
per_unit_CaseSensitive(r) ==
  IF isna(r.salary_text) THEN FALSE
  ELSE \E sub \in PerUnitCues : \E i \in 1..Len(val(r.salary_text)) :
         /\ i + Len(sub) - 1 <= Len(val(r.salary_text))
         /\ SubSeq(val(r.salary_text), i, i + Len(sub) - 1) = sub

per_unit(r) == StrContainsAny(r.salary_text, PerUnitCues)
drop_per_unit_wages(df) == SelectSeq(df, LAMBDA r : ~per_unit(r))

(* ---------------------------------------------------------------------- *)
(* data_cleaning.py: impute_missing_max_by_source                          *)
(* ---------------------------------------------------------------------- *)
DefaultSpread == 10000

has_both(r) == notna(r.salary_min) /\ notna(r.salary_max)

\* the mask that forgets to test salary_max
only_min_AnyMax(r) == notna(r.salary_min)

only_min(r) == notna(r.salary_min) /\ isna(r.salary_max)

\* k-th smallest element of a non-empty sequence of numbers
KthSmallest(xs, k) ==
  CHOOSE v \in { xs[i] : i \in 1..Len(xs) } :
    /\ Cardinality({ i \in 1..Len(xs) : xs[i] < v }) < k
    /\ Cardinality({ i \in 1..Len(xs) : xs[i] <= v }) >= k

\* Series.median(); the pools keep every spread even, so the mean of the
\* two middle values is a whole number
Median(xs) ==
  LET n == Len(xs)
  IN IF n % 2 = 1 THEN KthSmallest(xs, (n + 1) \div 2)
     ELSE (KthSmallest(xs, n \div 2) + KthSmallest(xs, n \div 2 + 1)) \div 2

\* spreads[has_both] of one source, in row order; groupby('source') leaves
\* out the rows whose source is NaN
SpreadsOf(df, source) ==
  LET rows == SelectSeq(df, LAMBDA r : has_both(r) /\ r.source = source)
  IN [i \in 1..Len(rows) |-> val(rows[i].salary_max) - val(rows[i].salary_min)]

\* median_spreads.get(source, 10000)
SpreadFor(df, source) ==
  IF notna(source) /\ Len(SpreadsOf(df, source)) > 0
  THEN Median(SpreadsOf(df, source))
  ELSE DefaultSpread

\* mask = only_min & (df['source'] == source): a NaN source equals nothing,
\* itself included, so its rows are in no mask
InMask(r) == only_min(r) /\ notna(r.source)

impute_row(df, r) ==
  IF InMask(r)
  THEN LET spread == SpreadFor(df, r.source)
       IN IF spread = 0
          THEN [r EXCEPT !.salary_max = r.salary_min]
          ELSE [r EXCEPT !.salary_max = Some(val(r.salary_min) + spread)]
  ELSE r

impute_missing_max_by_source(df) ==
  [i \in 1..Len(df) |-> impute_row(df, df[i])]

(* ---------------------------------------------------------------------- *)
(* data_cleaning.py: run_full_cleaning, clean_and_load                     *)
(* ---------------------------------------------------------------------- *)
Muse == <<"M","u","s","e">>

\* the dropna left out
DropNaState_Keep(df) == df

\* df.dropna(subset=['location_state'])
DropNaState(df) == SelectSeq(df, LAMBDA r : notna(r.location_state))

\* the Muse filter left out
DropMuse_Keep(df) == df

\* df[df['source'] != 'Muse']  (NaN != 'Muse' is True)
DropMuse(df) == SelectSeq(df, LAMBDA r : r.source # Some(Muse))

\* the cleaning run over the latest row of every job_id only, i.e. with
\* the de-duplication done before the filters
run_full_cleaning_LatestOnly(df) ==
  LET latest == { i \in 1..Len(df) :
                    \A j \in 1..Len(df) :
                      (j # i /\ df[j].job_id = df[i].job_id) =>
                        \/ df[j].scraped_at < df[i].scraped_at
                        \/ (df[j].scraped_at = df[i].scraped_at /\ i < j) }
      F[i \in 0..Len(df)] ==
        IF i = 0 THEN <<>>
        ELSE IF i \in latest THEN Append(F[i-1], df[i]) ELSE F[i-1]
      d0 == F[Len(df)]
      d1 == clean_empty_values(d0)
      d2 == clean_location(d1)
      d3 == extract_job_type_clean(d2)
      d4 == fix_k_notation(d3)
      d5 == fix_hourly_wages(d4)
      d6 == fix_monthly_wages(d5)
      d7 == fix_weekly_wages(d6)
      d8 == drop_per_unit_wages(d7)
      d9 == impute_missing_max_by_source(d8)
      d10 == DropNaState(d9)
  IN DropMuse(d10)

run_full_cleaning(df) ==
  LET d1 == clean_empty_values(df)
      d2 == clean_location(d1)
      d3 == extract_job_type_clean(d2)
      d4 == fix_k_notation(d3)
      d5 == fix_hourly_wages(d4)
      d6 == fix_monthly_wages(d5)
      d7 == fix_weekly_wages(d6)
      d8 == drop_per_unit_wages(d7)
      d9 == impute_missing_max_by_source(d8)
      d10 == DropNaState(d9)
  IN DropMuse(d10)

\* the sort with ascending=True
SortedDesc_Ascending(df) ==
  LET n == Len(df)
      perms == { p \in [1..n -> 1..n] : \A i, j \in 1..n : i # j => p[i] # p[j] }
  IN { [i \in 1..n |-> df[p[i]]] : p \in
         { q \in perms : \A i \in 1..(n-1) :
              df[q[i]].scraped_at <= df[q[i+1]].scraped_at } }

\* the row orders sort_values('scraped_at', ascending=False) can produce:
\* the default sort is not stable, so rows with equal scraped_at may come
\* out in any order
SortedDesc(df) ==
  LET n == Len(df)
      perms == { p \in [1..n -> 1..n] : \A i, j \in 1..n : i # j => p[i] # p[j] }
  IN { [i \in 1..n |-> df[p[i]]] : p \in
         { q \in perms : \A i \in 1..(n-1) :
              df[q[i]].scraped_at >= df[q[i+1]].scraped_at } }

\* drop_duplicates with keep='last': the last row of each job_id stays
drop_duplicates_last(df) ==
  LET keep == { i \in 1..Len(df) :
                  \A j \in (i+1)..Len(df) : df[j].job_id # df[i].job_id }
      F[i \in 0..Len(df)] ==
        IF i = 0 THEN <<>>
        ELSE IF i \in keep THEN Append(F[i-1], df[i]) ELSE F[i-1]
  IN F[Len(df)]

\* drop_duplicates with keep=False: every row of a repeated job_id goes
drop_duplicates_none(df) ==
  LET keep == { i \in 1..Len(df) :
                  \A j \in 1..Len(df) : j # i => df[j].job_id # df[i].job_id }
      F[i \in 0..Len(df)] ==
        IF i = 0 THEN <<>>
        ELSE IF i \in keep THEN Append(F[i-1], df[i]) ELSE F[i-1]
  IN F[Len(df)]

\* drop_duplicates(subset=['job_id'], keep='first')
drop_duplicates_first(df) ==
  LET keep == { i \in 1..Len(df) :
                  \A j \in 1..(i-1) : df[j].job_id # df[i].job_id }
      F[i \in 0..Len(df)] ==
        IF i = 0 THEN <<>>
        ELSE IF i \in keep THEN Append(F[i-1], df[i]) ELSE F[i-1]
  IN F[Len(df)]

\* pd.read_sql("SELECT * FROM raw_jobs"): every row with its primary key id
read_raw(table) == [i \in 1..Len(table) |-> [id |-> i] @@ table[i]]

(* ---------------------------------------------------------------------- *)
(* Input pools: the texts and postings the model draws its inputs from     *)
(* ---------------------------------------------------------------------- *)
txtAdzuna == <<"A","d","z","u","n","a">>
txtUSAJobs == <<"U","S","A","J","o","b","s">>
txtNone == <<"n","o","n","e">>
locHoustonTX == <<"H","o","u","s","t","o","n",","," ","T","X">>
locAustinLower == <<"A","u","s","t","i","n",","," ","t","x">>
locDallasTexas == <<"D","a","l","l","a","s",","," ","T","e","x","a","s">>
locRemote == <<"R","e","m","o","t","e">>
locParisFoo == <<"P","a","r","i","s",","," ","F","o","o">>
locRenoNVUSA == <<"R","e","n","o",","," ","N","V",","," ","U","S","A">>
locMiamiSpaced == <<"M","i","a","m","i"," ",","," "," ","F","L"," ">>
locDallasLower == <<"D","a","l","l","a","s",","," ","t","e","x","a","s">>
locBlank == <<" "," ">>
slCA == <<"C","A">>
slNyLower == <<" ","n","y"," ">>
slTexas == <<"T","e","x","a","s">>
slEmpty == <<>>
salK == <<"$","1","0","0","k"," ","-"," ","$","1","3","0","k"," ","a"," ","y","e","a","r">>
salHour == <<"$","2","5"," ","p","e","r"," ","h","o","u","r">>
salWeek == <<"$","8","0","0"," ","p","e","r"," ","w","e","e","k">>
salMonth == <<"$","3","0","0","0"," ","a"," ","m","o","n","t","h">>
salUnit == <<"$","5","0"," ","p","e","r"," ","u","n","i","t">>
jtFull == <<"F","u","l","l","-","t","i","m","e">>
jtContractor == <<"C","o","n","t","r","a","c","t","o","r"," ","(","t","e","m","p",")">>
salKMonth == <<"$","5","k"," ","a"," ","m","o","n","t","h">>
salHourWeek == <<"$","2"," ","p","e","r"," ","h","o","u","r",","," ","4","0"," ","h","o","u","r","s"," ","a"," ","w","e","e","k">>
salUpperHour == <<"$","2","5"," ","P","E","R"," ","H","O","U","R">>
salSlashWeek == <<"$","9","0","0","/","w","e","e","k">>
salAWeek == <<"$","9","0","0"," ","a"," ","w","e","e","k">>
salFourWeek == <<"$","4"," ","p","e","r"," ","w","e","e","k">>
salUnitUpper == <<"$","5","0"," ","P","E","R"," ","U","N","I","T">>
salYear == <<"$","5","0",",","0","0","0"," ","a"," ","y","e","a","r">>
jtPartUpper == <<"P","A","R","T"," ","T","I","M","E">>
jtTempContract == <<"t","e","m","p"," ","c","o","n","t","r","a","c","t">>
jtInternFull == <<"I","n","t","e","r","n","s","h","i","p",","," ","f","u","l","l"," ","t","i","m","e">>
jtSoftware == <<"S","o","f","t","w","a","r","e">>
jtManager == <<"M","a","n","a","g","e","r">>
jtNone == <<"n","o","n","e">>

\* one scraped posting (the fields the loader and the cleaning read); a
\* record of a file that has no job_id key has job_id = NaN
Posting(id, src, loc, sloc, text, smin, smax, jtype, at) ==
  [job_id |-> id, source |-> src, location |-> loc,
   search_location |-> sloc, salary_text |-> text,
   salary_min |-> smin, salary_max |-> smax,
   job_type |-> jtype, scraped_at |-> at]

\* postings the collectors can scrape: job 1 seen by two sources, job 2 once
pA == Posting(Some(1), Some(txtAdzuna), Some(locHoustonTX), Some(slTexas),
              Some(salK), Some(100), Some(130), Some(jtFull), 1)
pB == Posting(Some(1), Some(txtUSAJobs), Some(locRemote), Some(slCA),
              NaN, Some(80000), NaN, NaN, 2)
pC == Posting(Some(2), Some(Muse), Some(locDallasTexas), NaN,
              NaN, NaN, NaN, Some(jtContractor), 1)
\* a record of a foreign file, without the job_id key
pN == Posting(NaN, Some(txtAdzuna), Some(locHoustonTX), NaN,
              NaN, NaN, NaN, NaN, 1)

Pool == { pA, pB, pC }
NoIdPool == { pN }

MaxRecords == 3

SeqsUpTo(S, n) == UNION { [1..k -> S] : k \in 0..n }

\* the contents a json file of w records can have: a list of records, all
\* of them carrying job_id or none of them; the empty list counts as one
BatchesOfWeight(w) ==
  [1..w -> Pool] \cup [1..w -> NoIdPool] \cup (IF w = 1 THEN { <<>> } ELSE {})

\* the directories of json files that hold n records in all, in glob order
FilesOfWeight[n \in 0..MaxRecords] ==
  IF n = 0 THEN { <<>> }
  ELSE UNION { { <<b>> \o f : b \in BatchesOfWeight(w), f \in FilesOfWeight[n - w] } :
               w \in 1..n }

(* ---------------------------------------------------------------------- *)
(* job_collection_dag.py: load_raw_to_db                                   *)
(* ---------------------------------------------------------------------- *)
\* a ledger that is not rebuilt from the table
ReadLedger_Empty(table) == {}

\* a ledger qualified by source: SELECT ... WHERE source = 'Adzuna'
ReadLedger_OfOneSource(table) ==
  { table[i].job_id : i \in { j \in 1..Len(table) :
                                table[j].source = Some(txtAdzuna) } }

\* set(pd.read_sql("SELECT DISTINCT job_id FROM raw_jobs")['job_id'])
ReadLedger(table) == { table[i].job_id : i \in 1..Len(table) }

\* the column test left out
HasJobIdColumn_Always(data) == TRUE

\* 'job_id' in df.columns: the column exists when some record has the key
HasJobIdColumn(data) == \E i \in 1..Len(data) : notna(data[i].job_id)

\* the isin filter left out
NotInLedger_Unfiltered(df, existing) == df

\* the isin filter without its negation
NotInLedger_Inverted(df, existing) ==
  SelectSeq(df, LAMBDA r : r.job_id \in existing)

\* df[~df['job_id'].isin(existing_set)]
NotInLedger(df, existing) == SelectSeq(df, LAMBDA r : r.job_id \notin existing)

\* if_exists='replace' in place of 'append'
to_sql_append_Replace(table, df) == df

\* df.to_sql('raw_jobs', if_exists='append'): one transaction
to_sql_append(table, df) == table \o df

\* the insert without the try/except: the exception leaves the function
AfterInsert_Raise(failed) == IF failed THEN "raised" ELSE "loop"

\* what the loop does after the try/except around the insert
AfterInsert(failed) == "loop"

\* one iteration of the loop over json_files.  st holds raw_jobs,
\* existing_set, total_loaded, total_skipped; the result adds what the
\* iteration did (kind) and the rows it handed to the insert (rows)
LoadStep(st, data, insert_fails) ==
  IF Len(data) = 0
  THEN [st EXCEPT !.kind = "empty", !.rows = <<>>]
  ELSE IF ~HasJobIdColumn(data)
  THEN [st EXCEPT !.kind = "no_job_id", !.rows = <<>>]
  ELSE
    LET before_count == Len(data)
        df1 == NotInLedger(data, st.existing_set)
        skipped == before_count - Len(df1)
    IN IF Len(df1) = 0
       THEN [st EXCEPT !.total_skipped = @ + skipped,
                       !.kind = "all_known", !.rows = <<>>]
       ELSE
         LET df2 == drop_duplicates_first(df1)
             new_ids == { df2[k].job_id : k \in 1..Len(df2) }
         IN IF insert_fails
            THEN [st EXCEPT !.total_skipped = @ + skipped,
                            !.existing_set = @ \cup new_ids,
                            !.kind = "insert_failed", !.rows = df2]
            ELSE [st EXCEPT !.total_skipped = @ + skipped,
                            !.existing_set = @ \cup new_ids,
                            !.raw_jobs = to_sql_append(@, df2),
                            !.total_loaded = @ + Len(df2),
                            !.kind = "inserted", !.rows = df2]

\* a whole run over the files, the ledger rebuilt from the table; fails[k]
\* says whether the insert of file k fails.  Result: the final st
LoadRun(table, fls, fails) ==
  LET st0 == [raw_jobs |-> table, existing_set |-> ReadLedger(table),
              total_loaded |-> 0, total_skipped |-> 0,
              kind |-> "start", rows |-> <<>>, failed |-> FALSE]
      F[k \in 0..Len(fls)] ==
        IF k = 0 THEN st0
        ELSE LET s == LoadStep(F[k-1], fls[k], fails[k])
             IN [s EXCEPT !.failed = @ \/ s.kind = "insert_failed"]
  IN F[Len(fls)]

(* ---------------------------------------------------------------------- *)
(* State                                                                   *)
(* ---------------------------------------------------------------------- *)
VARIABLES
  raw_jobs,       \* table raw_jobs, rows in insertion order
  cleaned_jobs,   \* table cleaned_jobs
  files,          \* /opt/airflow/data/raw/*.json, in glob order
  task,           \* position of the DAG run: collect, load, clean
  pc,             \* load_raw_to_db: idle, loop, done
  json_files,     \* load_raw_to_db: the glob result
  file_no,        \* load_raw_to_db: index of the next file of the loop
  existing_set,   \* load_raw_to_db: the in-memory ledger
  total_loaded,
  total_skipped,
  ret,            \* return value of the last load_raw_to_db
  clean_ret,      \* outcome of the last clean_and_load
  cleaned0,       \* history: cleaned_jobs when the last clean_and_load started
  log,            \* history: what each iteration of the current run did
  raw0,           \* history: raw_jobs when the current loader run started
  rerun,          \* history: the current run follows a completed run over
                  \*          the same files
  prev_ok,        \* history: the previous run over these files completed
                  \*          without a failed insert
  attempt,        \* history: whether a try of the loader task was terminated
                  \*          after it had committed rows, and raw_jobs when
                  \*          the first try started
  rel             \* the loads of two batches compared: inputs and outcomes

vars == << raw_jobs, cleaned_jobs, files, task, pc, json_files, file_no,
           existing_set, total_loaded, total_skipped, ret, clean_ret,
           cleaned0, log, raw0, rerun, prev_ok, attempt, rel >>

loader_vars == << pc, json_files, file_no, existing_set, total_loaded,
                  total_skipped, ret, log, raw0, rerun, prev_ok, attempt >>

\* no try of the loader task was terminated
NoAttempt == [retry |-> FALSE, raw0 |-> <<>>]

NoRet == [status |-> "none", loaded |-> 0, skipped |-> 0]

\* the exit code of `python data_cleaning.py`: an exception that leaves
\* clean_and_load ends the process with code 1
ExitCode(status) == IF status = "raised" THEN 1 ELSE 0

\* the task callable that swallows a failed subprocess
clean_data_Swallow(returncode) == "success"

\* DAG task clean_data: raises when the subprocess returned non-zero
clean_data(returncode) == IF returncode # 0 THEN "failed" ELSE "success"

\* what the last clean_and_load did: it returned a count or raised, where
\* it raised, and the state of the DAG task that ran it
CleanRet(status, count, cause) ==
  [status |-> status, count |-> count, cause |-> cause,
   task_state |-> clean_data(ExitCode(status))]
NoCleanRet ==
  [status |-> "none", count |-> 0, cause |-> "none", task_state |-> "none"]

JobIds(table) == { table[k].job_id : k \in 1..Len(table) }
NoRepeatedJobId(table) ==
  \A a, b \in 1..Len(table) : a # b => table[a].job_id # table[b].job_id

InitLoader ==
  /\ pc = "idle" /\ json_files = <<>> /\ file_no = 1 /\ existing_set = {}
  /\ total_loaded = 0 /\ total_skipped = 0 /\ ret = NoRet
  /\ log = <<>> /\ raw0 = <<>> /\ rerun = FALSE /\ prev_ok = FALSE
  /\ attempt = NoAttempt

\* the raw store starts empty or with one posting from an earlier life
NoRel == [table |-> <<>>, B1 |-> <<>>, B2 |-> <<>>]

Init ==
  /\ rel = NoRel
  /\ raw_jobs \in SeqsUpTo(Pool, 1)
  /\ cleaned_jobs = <<>>
  /\ files = <<>>
  /\ task = "collect"
  /\ clean_ret = NoCleanRet
  /\ cleaned0 = <<>>
  /\ InitLoader

(* ---------------------------------------------------------------------- *)
(* DAG: collect_* >> load_raw >> cleanup_jsons >> clean                    *)
(* ---------------------------------------------------------------------- *)
\* the collectors of a new DAG run write their json files; the run has no
\* clean outcome yet
Collect ==
  /\ task = "collect"
  /\ \E n \in 1..MaxRecords : files' \in FilesOfWeight[n]
  /\ task' = "load"
  /\ clean_ret' = NoCleanRet /\ cleaned0' = <<>>
  /\ UNCHANGED << raw_jobs, cleaned_jobs >>
  /\ UNCHANGED loader_vars
  /\ UNCHANGED rel

\* load_raw_to_db up to the loop: read the ledger, glob the files.  The
\* task can run again over the same files (retry, manual re-run)
LoadStart ==
  /\ task = "load"
  /\ pc \in {"idle", "done"}
  /\ existing_set' = ReadLedger(raw_jobs)
  /\ json_files' = files
  /\ file_no' = 1
  /\ total_loaded' = 0 /\ total_skipped' = 0
  /\ pc' = "loop"
  /\ ret' = NoRet
  /\ log' = <<>>
  /\ raw0' = raw_jobs
  /\ rerun' = (pc = "done")
  /\ prev_ok' = (pc = "done" /\ \A k \in 1..Len(log) : log[k].kind # "insert_failed")
  /\ attempt' = IF pc = "idle" /\ attempt.retry THEN attempt
                ELSE [retry |-> FALSE, raw0 |-> raw_jobs]
  /\ UNCHANGED << raw_jobs, cleaned_jobs, files, task, clean_ret, cleaned0 >>
  /\ UNCHANGED rel

\* one iteration of the loop; the insert succeeds or raises
LoadBatch ==
  /\ pc = "loop"
  /\ file_no <= Len(json_files)
  /\ \E insert_fails \in BOOLEAN :
       LET st == [raw_jobs |-> raw_jobs, existing_set |-> existing_set,
                  total_loaded |-> total_loaded,
                  total_skipped |-> total_skipped,
                  kind |-> "start", rows |-> <<>>]
           s == LoadStep(st, json_files[file_no], insert_fails)
       IN /\ raw_jobs' = s.raw_jobs
          /\ existing_set' = s.existing_set
          /\ total_loaded' = s.total_loaded
          /\ total_skipped' = s.total_skipped
          /\ log' = Append(log, [kind |-> s.kind, rows |-> s.rows])
          /\ pc' = AfterInsert(s.kind = "insert_failed")
          /\ ret' = IF pc' = "raised"
                    THEN [status |-> "raised", loaded |-> 0, skipped |-> 0]
                    ELSE ret
  /\ file_no' = file_no + 1
  /\ UNCHANGED << cleaned_jobs, files, task, clean_ret, cleaned0, json_files, raw0,
                  rerun, prev_ok, attempt >>
  /\ UNCHANGED rel

\* the task process is terminated inside the loop (worker killed, task
\* timeout): the batches it committed stay in the table, its locals are
\* gone, and the scheduler retries the task over the same files
LoadKill ==
  /\ task = "load"
  /\ pc = "loop"
  /\ pc' = "idle" /\ json_files' = <<>> /\ file_no' = 1 /\ existing_set' = {}
  /\ total_loaded' = 0 /\ total_skipped' = 0 /\ ret' = NoRet
  /\ log' = <<>> /\ raw0' = <<>> /\ rerun' = FALSE /\ prev_ok' = FALSE
  /\ attempt' = IF attempt.retry \/ Len(raw_jobs) > Len(attempt.raw0)
                THEN [attempt EXCEPT !.retry = TRUE]
                ELSE NoAttempt
  /\ UNCHANGED << raw_jobs, cleaned_jobs, files, task, clean_ret, cleaned0 >>
  /\ UNCHANGED rel

\* return f"success: {total_loaded} jobs loaded, {total_skipped} duplicates skipped"
LoadReturn ==
  /\ pc = "loop"
  /\ file_no > Len(json_files)
  /\ pc' = "done"
  /\ ret' = [status |-> "success", loaded |-> total_loaded,
             skipped |-> total_skipped]
  /\ UNCHANGED << raw_jobs, cleaned_jobs, files, task, clean_ret, cleaned0, json_files,
                  file_no, existing_set, total_loaded, total_skipped, log, raw0,
                  rerun, prev_ok, attempt >>
  /\ UNCHANGED rel

\* cleanup_json_files: delete every json file.  The loader has returned,
\* its locals are gone
Cleanup ==
  /\ task = "load"
  /\ pc = "done"
  /\ files' = <<>>
  /\ task' = "clean"
  /\ pc' = "idle" /\ json_files' = <<>> /\ file_no' = 1 /\ existing_set' = {}
  /\ total_loaded' = 0 /\ total_skipped' = 0 /\ ret' = NoRet
  /\ log' = <<>> /\ raw0' = <<>> /\ rerun' = FALSE /\ prev_ok' = FALSE
  /\ attempt' = NoAttempt
  /\ UNCHANGED << raw_jobs, cleaned_jobs, clean_ret, cleaned0 >>
  /\ UNCHANGED rel

\* to_sql with if_exists='append'
to_sql_replace_Append(table, df) == table \o df

\* to_sql('cleaned_jobs', if_exists='replace')
to_sql_replace(table, df) == df

\* the count test written the other way round
verify_cleaned_data_Reversed(raw, cleaned) ==
  IF Len(cleaned) = 0 THEN "empty_table"
  ELSE IF Len(cleaned) < Len(raw) THEN "more_cleaned_than_raw"
  ELSE "success"

\* DAG task verify_cleaned_data: the exception it raises over the two row
\* counts, or success (the columns it requires are never dropped by the
\* cleaning)
verify_cleaned_data(raw, cleaned) ==
  IF Len(cleaned) = 0 THEN "empty_table"
  ELSE IF Len(cleaned) > Len(raw) THEN "more_cleaned_than_raw"
  ELSE "success"

\* a publish that copies the old rows aside inside the table and fails
\* before it removes any of them
to_sql_replace_failed_OldRowsKept(table) == { table, table \o table }

\* the states to_sql(if_exists='replace') can leave the table in when it
\* fails: as it was (nothing done yet, or the transaction rolled back), or
\* dropped and re-created without the rows
to_sql_replace_failed(table) == { table, <<>> }

\* clean_and_load, successful run
CleanAndLoad ==
  /\ task = "clean"
  /\ LET df == read_raw(raw_jobs)
     IN /\ ~SplitRaises(clean_empty_values(df))
        /\ \E sorted \in SortedDesc(run_full_cleaning(df)) :
             LET df_clean == drop_duplicates_first(sorted)
             IN /\ cleaned_jobs' = to_sql_replace(cleaned_jobs, df_clean)
                /\ clean_ret' = CleanRet("success", Len(df_clean), "none")
  /\ cleaned0' = cleaned_jobs
  /\ task' = "collect"
  /\ UNCHANGED << raw_jobs, files >>
  /\ UNCHANGED loader_vars
  /\ UNCHANGED rel

\* clean_and_load, run that raises in clean_location
CleanRaise ==
  /\ task = "clean"
  /\ SplitRaises(clean_empty_values(read_raw(raw_jobs)))
  /\ clean_ret' = CleanRet("raised", 0, "clean_location")
  /\ cleaned0' = cleaned_jobs
  /\ task' = "collect"
  /\ UNCHANGED << raw_jobs, cleaned_jobs, files >>
  /\ UNCHANGED loader_vars
  /\ UNCHANGED rel

\* clean_and_load, run in which pd.read_sql raises
CleanReadFails ==
  /\ task = "clean"
  /\ clean_ret' = CleanRet("raised", 0, "read")
  /\ cleaned0' = cleaned_jobs
  /\ task' = "collect"
  /\ UNCHANGED << raw_jobs, cleaned_jobs, files >>
  /\ UNCHANGED loader_vars
  /\ UNCHANGED rel

\* clean_and_load, run in which to_sql raises
CleanWriteFails ==
  /\ task = "clean"
  /\ ~SplitRaises(clean_empty_values(read_raw(raw_jobs)))
  /\ cleaned_jobs' \in to_sql_replace_failed(cleaned_jobs)
  /\ clean_ret' = CleanRet("raised", 0, "write")
  /\ cleaned0' = cleaned_jobs
  /\ task' = "collect"
  /\ UNCHANGED << raw_jobs, files >>
  /\ UNCHANGED loader_vars
  /\ UNCHANGED rel

Next ==
  \/ Collect
  \/ LoadStart
  \/ LoadBatch
  \/ LoadKill
  \/ LoadReturn
  \/ Cleanup
  \/ CleanAndLoad
  \/ CleanRaise
  \/ CleanReadFails
  \/ CleanWriteFails

Spec == Init /\ [][Next]_vars

TypeOK ==
  /\ pc \in {"idle", "loop", "done"}
  /\ task \in {"collect", "load", "clean"}
  /\ total_loaded \in Nat /\ total_skipped \in Nat

(* ---------------------------------------------------------------------- *)
(* The cleaning pipeline over bounded raw tables                           *)
(* ---------------------------------------------------------------------- *)
MaxFillers == 1
MaxSalRows == 2

Locations ==
  { NaN, Some(locHoustonTX), Some(locAustinLower), Some(locDallasTexas),
    Some(locRemote), Some(locParisFoo), Some(locRenoNVUSA),
    Some(locMiamiSpaced), Some(locDallasLower), Some(locBlank) }
SearchLocations == { NaN, Some(slCA), Some(slNyLower), Some(slTexas), Some(slEmpty) }

\* row k of a table that varies location and search_location only
LocRow(k, c) ==
  Posting(Some(k), Some(txtAdzuna), c[1], c[2], NaN, Some(50000), Some(60000),
          NaN, 1)
\* the rows that stand next to the row under study
Fillers ==
  { <<Some(locHoustonTX), NaN>>, <<Some(locParisFoo), NaN>>, <<Some(locRemote), NaN>> }
\* a first row with any location and search_location, then filler rows
LocTables ==
  UNION { { [k \in 1..(n + 1) |-> LocRow(k, IF k = 1 THEN c ELSE f[k - 1])] :
              c \in Locations \X SearchLocations, f \in [1..n -> Fillers] } :
          n \in 0..MaxFillers }

\* rows that vary source, salary and scrape time
SalPool ==
  { Posting(Some(1), Some(txtAdzuna), Some(locHoustonTX), NaN,
            NaN, Some(80000), NaN, NaN, 1),
    Posting(Some(2), Some(txtAdzuna), Some(locHoustonTX), NaN,
            NaN, Some(60000), Some(75000), NaN, 1),
    Posting(Some(3), Some(txtAdzuna), Some(locHoustonTX), NaN,
            NaN, Some(90000), Some(70000), NaN, 1),
    Posting(Some(1), Some(txtNone), Some(locHoustonTX), NaN,
            NaN, Some(80000), NaN, NaN, 2),
    Posting(Some(2), Some(Muse), Some(locHoustonTX), NaN,
            NaN, Some(50000), Some(90000), NaN, 2),
    Posting(Some(3), Some(txtAdzuna), Some(locRemote), NaN,
            NaN, Some(70000), Some(80000), NaN, 2),
    Posting(Some(4), Some(txtUSAJobs), Some(locHoustonTX), NaN,
            Some(salK), Some(100), Some(130), Some(jtFull), 1),
    Posting(Some(4), Some(txtUSAJobs), Some(locHoustonTX), NaN,
            Some(salHour), Some(25), NaN, Some(jtContractor), 2) }
SalTables == UNION { [1..n -> SalPool] : n \in 1..MaxSalRows }

\* one-row tables that vary salary_text and the two salary bounds around
\* the thresholds of the correction rules
SalaryTexts ==
  { NaN, Some(salK), Some(salHour), Some(salWeek), Some(salMonth),
    Some(salUnit), Some(salKMonth), Some(salHourWeek), Some(salUpperHour),
    Some(salSlashWeek), Some(salAWeek), Some(salFourWeek), Some(salUnitUpper),
    Some(salYear) }
SalaryMins ==
  { NaN, Some(4), Some(25), Some(100), Some(199), Some(200), Some(800), Some(999),
    Some(1000), Some(3000), Some(4999), Some(5000), Some(19999), Some(20000) }
SalaryMaxes(smin) == { NaN, IF isna(smin) THEN Some(130) ELSE Some(val(smin) + 30) }
FixRow(text, smin, smax) ==
  Posting(Some(1), Some(txtUSAJobs), Some(locHoustonTX), NaN, text, smin, smax,
          NaN, 1)
FixTables ==
  UNION { { << FixRow(text, smin, smax) >> : smax \in SalaryMaxes(smin) } :
          text \in SalaryTexts, smin \in SalaryMins }

\* one-row tables that vary job_type
JobTypes ==
  { NaN, Some(jtFull), Some(jtContractor), Some(jtPartUpper),
    Some(jtTempContract), Some(jtInternFull), Some(jtSoftware),
    Some(jtManager), Some(jtNone) }
TypeRow(jtype) ==
  Posting(Some(1), Some(txtUSAJobs), Some(locHoustonTX), NaN, NaN, NaN, NaN,
          jtype, 1)
TypeTables == { << TypeRow(jtype) >> : jtype \in JobTypes }

\* the cleaned stores an earlier pipeline run can have left: none, or what
\* a successful clean_and_load published when the raw store did not yet
\* have its last row
PreviousStores(table) ==
  LET before == SubSeq(table, 1, Len(table) - 1)
  IN { <<>> } \cup
     ( IF Len(table) > 1 /\ ~SplitRaises(clean_empty_values(read_raw(before)))
       THEN { drop_duplicates_first(sorted) :
                sorted \in SortedDesc(run_full_cleaning(read_raw(before))) }
       ELSE {} )

\* the raw table is any of the bounded tables; the DAG is at its clean task
InitClean ==
  /\ rel = NoRel
  /\ raw_jobs \in LocTables \cup SalTables \cup FixTables \cup TypeTables
  /\ cleaned_jobs \in PreviousStores(raw_jobs)
  /\ files = <<>>
  /\ task = "clean"
  /\ clean_ret = NoCleanRet
  /\ cleaned0 = <<>>
  /\ InitLoader

NextClean ==
  \/ CleanAndLoad
  \/ CleanRaise
  \/ CleanReadFails
  \/ CleanWriteFails

SpecClean == InitClean /\ [][NextClean]_vars

(* ---------------------------------------------------------------------- *)
(* Two batches loaded in different ways, from the same raw table           *)
(* ---------------------------------------------------------------------- *)
NotRun == [done |-> FALSE, ids |-> {}, failed |-> FALSE]
Outcome(table, failed) == [done |-> TRUE, ids |-> JobIds(table), failed |-> failed]

\* a starting table and two batches that carry job_id, of MaxRecords
\* records together at most
InitRel ==
  /\ \E t \in SeqsUpTo(Pool, 1) :
     \E n1 \in 1..(MaxRecords - 1) : \E n2 \in 1..(MaxRecords - n1) :
     \E b1 \in [1..n1 -> Pool], b2 \in [1..n2 -> Pool] :
       rel = [table |-> t, B1 |-> b1, B2 |-> b2, one_run |-> NotRun,
              two_runs |-> NotRun, concat |-> NotRun, reversed |-> NotRun]
  /\ raw_jobs = <<>>
  /\ cleaned_jobs = <<>>
  /\ files = <<>>
  /\ task = "collect"
  /\ clean_ret = NoCleanRet
  /\ cleaned0 = <<>>
  /\ InitLoader

\* one run over the files B1, B2
RelOneRun ==
  /\ ~rel.one_run.done
  /\ \E fails \in [1..2 -> BOOLEAN] :
       LET r == LoadRun(rel.table, << rel.B1, rel.B2 >>, fails)
       IN rel' = [rel EXCEPT !.one_run = Outcome(r.raw_jobs, r.failed)]
  /\ UNCHANGED << raw_jobs, cleaned_jobs, files, task, clean_ret, cleaned0 >>
  /\ UNCHANGED loader_vars

\* a run over B1, then a run over B2
RelTwoRuns ==
  /\ ~rel.two_runs.done
  /\ \E f1 \in BOOLEAN, f2 \in BOOLEAN :
       LET r1 == LoadRun(rel.table, << rel.B1 >>, << f1 >>)
           r2 == LoadRun(r1.raw_jobs, << rel.B2 >>, << f2 >>)
       IN rel' = [rel EXCEPT !.two_runs =
                    Outcome(r2.raw_jobs, r1.failed \/ r2.failed)]
  /\ UNCHANGED << raw_jobs, cleaned_jobs, files, task, clean_ret, cleaned0 >>
  /\ UNCHANGED loader_vars

\* one run over the single batch B1 + B2, deduplicated by first occurrence
RelConcat ==
  /\ ~rel.concat.done
  /\ \E f \in BOOLEAN :
       LET r == LoadRun(rel.table,
                        << drop_duplicates_first(rel.B1 \o rel.B2) >>, << f >>)
       IN rel' = [rel EXCEPT !.concat = Outcome(r.raw_jobs, r.failed)]
  /\ UNCHANGED << raw_jobs, cleaned_jobs, files, task, clean_ret, cleaned0 >>
  /\ UNCHANGED loader_vars

\* one run over the files B2, B1
RelReversed ==
  /\ ~rel.reversed.done
  /\ \E fails \in [1..2 -> BOOLEAN] :
       LET r == LoadRun(rel.table, << rel.B2, rel.B1 >>, fails)
       IN rel' = [rel EXCEPT !.reversed = Outcome(r.raw_jobs, r.failed)]
  /\ UNCHANGED << raw_jobs, cleaned_jobs, files, task, clean_ret, cleaned0 >>
  /\ UNCHANGED loader_vars

NextRel ==
  \/ RelOneRun
  \/ RelTwoRuns
  \/ RelConcat
  \/ RelReversed

SpecRel == InitRel /\ [][NextRel]_vars

(* ---------------------------------------------------------------------- *)
(* Properties                                                              *)
(* ---------------------------------------------------------------------- *)
FailedIn(lg) == \E k \in 1..Len(lg) : lg[k].kind = "insert_failed"

\* job_ids handed to an insert (accepted) by the iterations logged so far
Accepted(lg) ==
  UNION { { lg[k].rows[m].job_id : m \in 1..Len(lg[k].rows) } : k \in 1..Len(lg) }

\* rows the inserts that succeeded wrote, in order
Inserted(lg) ==
  LET F[k \in 0..Len(lg)] ==
        IF k = 0 THEN <<>>
        ELSE IF lg[k].kind = "inserted" THEN F[k-1] \o lg[k].rows ELSE F[k-1]
  IN F[Len(lg)]

\* the rows of data that carry a job_id outside known and are the first of
\* data with that job_id, in the order of data
FirstNew(data, known) ==
  LET want(k) == /\ notna(data[k].job_id)
                 /\ data[k].job_id \notin known
                 /\ \A j \in 1..(k-1) : data[j].job_id # data[k].job_id
      F[k \in 0..Len(data)] ==
        IF k = 0 THEN <<>>
        ELSE IF want(k) THEN Append(F[k-1], data[k]) ELSE F[k-1]
  IN F[Len(data)]

IsPrefix(s, t) == Len(s) <= Len(t) /\ SubSeq(t, 1, Len(s)) = s

\* C1: whatever loader runs happened (batches arbitrary, inserts free to
\* fail), the raw store, which started without a repeated job_id, never
\* holds two rows with the same job_id.
C1_NoRepeatedJobId == NoRepeatedJobId(raw_jobs)

C1_Witness ==
  /\ pc = "done" /\ rerun /\ ~prev_ok
  /\ Len(raw0) >= 1
  /\ Len(raw_jobs) > Len(raw0)
  /\ ret.skipped >= 1

C4_AppendsFirstNew ==
  [][ (pc = "loop" /\ file_no' = file_no + 1) =>
        /\ raw_jobs' = raw_jobs \o
             FirstNew(json_files[file_no], ReadLedger(raw0) \cup Accepted(log))
        /\ NoRepeatedJobId(SubSeq(raw_jobs', Len(raw0) + 1, Len(raw_jobs'))) ]_vars

\* C4 amended: an iteration whose insert does not fail appends exactly those
\* rows; an iteration whose insert fails appends nothing (its job_ids still
\* count as accepted); no job_id is appended twice in a run.
C4_AppendsFirstNewUnlessFailed ==
  [][ (pc = "loop" /\ file_no' = file_no + 1) =>
        /\ raw_jobs' = raw_jobs \o
             ( IF log'[Len(log')].kind = "insert_failed" THEN <<>>
               ELSE FirstNew(json_files[file_no],
                             ReadLedger(raw0) \cup Accepted(log)) )
        /\ NoRepeatedJobId(SubSeq(raw_jobs', Len(raw0) + 1, Len(raw_jobs'))) ]_vars

C4_Witness ==
  /\ Len(log) = 2
  /\ log[1].kind = "inserted"
  /\ Len(json_files[1]) > Len(log[1].rows)
  /\ \E m \in 1..Len(json_files[2]) :
       json_files[2][m].job_id \in Accepted(SubSeq(log, 1, 1))

\* C5: when the insert of a batch fails the loader does not raise: it goes
\* on with the loop, processes every remaining batch in order, returns its
\* success result, and the raw store holds the rows of the successful
\* inserts only, none with a job_id of the rows of the failed insert.
C5_FailedInsertIsSkipped ==
  FailedIn(log) =>
    /\ pc \in {"loop", "done"}
    /\ raw_jobs = raw0 \o Inserted(log)
    /\ \A k \in 1..Len(log) : log[k].kind = "insert_failed" =>
         \A m \in 1..Len(log[k].rows) : log[k].rows[m].job_id \notin JobIds(raw_jobs)
    /\ pc = "done" => (ret.status = "success" /\ Len(log) = Len(json_files))

C5_Witness ==
  /\ pc = "done" /\ ret.status = "success"
  /\ Len(log) = 2
  /\ log[1].kind = "insert_failed"
  /\ log[2].kind = "inserted"

\* C6: an iteration over a batch that is empty or whose records all lack
\* job_id changes neither the raw store nor the ledger nor the two counters,
\* and the loop goes on with the next batch.
C6_ShapelessBatchSkipped ==
  [][ ( /\ pc = "loop"
        /\ file_no <= Len(json_files)
        /\ file_no' = file_no + 1
        /\ \A m \in 1..Len(json_files[file_no]) :
             isna(json_files[file_no][m].job_id) ) =>
      ( /\ raw_jobs' = raw_jobs
        /\ existing_set' = existing_set
        /\ total_loaded' = total_loaded
        /\ total_skipped' = total_skipped
        /\ pc' = "loop" ) ]_vars

C6_Witness ==
  /\ Len(log) = 2
  /\ log[1].kind = "no_job_id"
  /\ Len(json_files[1]) = 2
  /\ log[2].kind = "inserted"

\* number of records in the batches that have the job_id column
RecordsWithJobId(fls) ==
  LET F[k \in 0..Len(fls)] ==
        IF k = 0 THEN 0
        ELSE IF HasJobIdColumn(fls[k]) THEN F[k-1] + Len(fls[k]) ELSE F[k-1]
  IN F[Len(fls)]

\* C7: the counts of a run partition its input: total_loaded is the number
\* of rows the run appended, and when no insert failed total_loaded +
\* total_skipped is the number of records of the batches that carry job_id.
C7_CountsPartitionInput ==
  (pc = "done" /\ ~FailedIn(log)) =>
    /\ ret.loaded = Len(raw_jobs) - Len(raw0)
    /\ ret.loaded + ret.skipped = RecordsWithJobId(json_files)

\* C8: no step of the loader or of the cleaning removes or changes a row of
\* the raw store: the table after a step is the table before it with rows
\* appended, so a stored job_id keeps the row first ingested for it.
C8_RawStoreOnlyGrows == [][ IsPrefix(raw_jobs, raw_jobs') ]_vars

C8_Witness ==
  /\ Len(cleaned_jobs) >= 1
  /\ pc = "done"
  /\ Len(raw0) >= 1
  /\ Len(raw_jobs) > Len(raw0)
  /\ \E f \in 1..Len(json_files) : \E m \in 1..Len(json_files[f]) :
       /\ json_files[f][m].job_id = raw0[1].job_id
       /\ json_files[f][m] # raw0[1]

\* a state can be read off the raw fields of a posting: the text after the
\* first comma of location is a code or a full state name, or
\* search_location is a code
Resolvable(r) ==
  \/ /\ notna(r.location)
     /\ HasComma(val(r.location))
     /\ LET rest == Strip(SubSeq(val(r.location), FirstComma(val(r.location)) + 1,
                                 Len(val(r.location))))
        IN Upper(rest) \in STATE_CODES \/ rest \in state_names
  \/ /\ notna(r.search_location)
     /\ Upper(Strip(val(r.search_location))) \in STATE_CODES

\* C9: after a successful clean_and_load every row of the cleaned store has
\* a location_state among the 51 codes, and comes from a raw row whose
\* state is resolvable from location or search_location.
C9_CleanedStateIsCode ==
  clean_ret.status = "success" =>
    /\ Cardinality(STATE_CODES) = 51
    /\ \A k \in 1..Len(cleaned_jobs) :
         /\ notna(cleaned_jobs[k].location_state)
         /\ val(cleaned_jobs[k].location_state) \in STATE_CODES
         /\ Resolvable(raw_jobs[cleaned_jobs[k].id])

C9_Witness ==
  /\ clean_ret.status = "success"
  /\ Len(cleaned_jobs) = 1
  /\ Len(raw_jobs) = 2
  /\ \E k \in 1..2 : ~Resolvable(raw_jobs[k])
  /\ raw_jobs[cleaned_jobs[1].id].location = Some(locRemote)

\* C10: in every row of the cleaned store a present salary_min comes with a
\* present salary_max, whatever the source of the row.
C10_MinImpliesMax ==
  \A k \in 1..Len(cleaned_jobs) :
    notna(cleaned_jobs[k].salary_min) => notna(cleaned_jobs[k].salary_max)

\* a raw row is a candidate that passes the filters of the pipeline: its
\* state is resolvable, its source is not Muse, its salary is not per unit
PassesFilters(r) ==
  LET c == clean_empty_row(r)
  IN /\ Resolvable(c)
     /\ c.source # Some(Muse)
     /\ ~per_unit(c)

\* C11: after a successful clean_and_load no two rows of the cleaned store
\* share a job_id, every job_id with a candidate that passes the filters
\* has a row, and that row's scraped_at is the greatest among the
\* candidates of its job_id that pass the filters.
C11_OneRowPerJobIdLatestWins ==
  clean_ret.status = "success" =>
    /\ \A a, b \in 1..Len(cleaned_jobs) :
         a # b => cleaned_jobs[a].job_id # cleaned_jobs[b].job_id
    /\ \A i \in 1..Len(raw_jobs) :
         PassesFilters(raw_jobs[i]) =>
           \E k \in 1..Len(cleaned_jobs) :
             /\ cleaned_jobs[k].job_id = raw_jobs[i].job_id
             /\ cleaned_jobs[k].scraped_at >= raw_jobs[i].scraped_at
             /\ PassesFilters(raw_jobs[cleaned_jobs[k].id])

C11_Witness ==
  /\ clean_ret.status = "success"
  /\ \E i, j \in 1..Len(raw_jobs) :
       /\ raw_jobs[i].job_id = raw_jobs[j].job_id
       /\ raw_jobs[i].scraped_at < raw_jobs[j].scraped_at
       /\ PassesFilters(raw_jobs[i]) /\ PassesFilters(raw_jobs[j])
       /\ i > j
       /\ \E k \in 1..Len(cleaned_jobs) : cleaned_jobs[k].id = j

\* C12: after a successful clean_and_load no row of the cleaned store has
\* the source "Muse", although a Muse posting with a resolvable state
\* passes every other filter.
C12_NoMuseInCleanedStore ==
  clean_ret.status = "success" =>
    \A k \in 1..Len(cleaned_jobs) :
      /\ cleaned_jobs[k].source # Some(Muse)
      /\ raw_jobs[cleaned_jobs[k].id].source # Some(Muse)

C12_Witness ==
  /\ clean_ret.status = "success"
  /\ Len(raw_jobs) = 1
  /\ raw_jobs[1].source = Some(Muse)
  /\ Resolvable(raw_jobs[1]) /\ ~per_unit(raw_jobs[1])
  /\ cleaned_jobs = <<>> /\ clean_ret.count = 0

\* the tables the cleaning derives from a snapshot of the raw store, one
\* for each order the sort can leave rows of equal scraped_at in
DerivedStores(table) ==
  { drop_duplicates_first(sorted) :
      sorted \in SortedDesc(run_full_cleaning(read_raw(table))) }

\* C13: when clean_and_load has returned, the cleaned store is exactly a
\* table derived from the raw store the run read, whatever the cleaned
\* store held before, and the returned count is its number of rows.
C13_CleanedStoreIsRebuilt ==
  (task = "collect" /\ clean_ret.status = "success") =>
    /\ cleaned_jobs \in DerivedStores(raw_jobs)
    /\ clean_ret.count = Len(cleaned_jobs)

C13_Witness ==
  /\ task = "collect" /\ clean_ret.status = "success"
  /\ Len(cleaned_jobs) >= 1
  /\ \E j \in 1..Len(cleaned0) :
       \A k \in 1..Len(cleaned_jobs) : cleaned_jobs[k] # cleaned0[j]

\* the text after the first comma of a location, trimmed; absent when
\* the location is absent or has no comma
AfterFirstComma(loc) ==
  IF isna(loc) THEN NaN
  ELSE IF HasComma(val(loc))
       THEN Some(Strip(SubSeq(val(loc), FirstComma(val(loc)) + 1, Len(val(loc)))))
       ELSE NaN

\* the ordered fallback: a code after the comma, else a full state name
\* after the comma, else a code in search_location, else absent
ResolvedState(location, search_location) ==
  LET rest == AfterFirstComma(location)
  IN IF (IF isna(rest) THEN FALSE ELSE Upper(val(rest)) \in STATE_CODES)
     THEN Some(Upper(val(rest)))
     ELSE IF (IF isna(rest) THEN FALSE ELSE val(rest) \in state_names)
     THEN Some(CodeOfName(val(rest)))
     ELSE IF (IF isna(search_location) THEN FALSE
              ELSE Upper(Strip(val(search_location))) \in STATE_CODES)
     THEN Some(Upper(Strip(val(search_location))))
     ELSE NaN

\* C14: a clean_and_load run that can read and write its stores resolves
\* the state of every raw row by the ordered fallback over its location
\* and search_location alone: each published row carries that state, and
\* each row that passes the filters and has such a state is published.
C14_ResolutionIsOrderedFallback ==
  (task = "collect" /\ clean_ret.status # "none"
     /\ clean_ret.cause \notin {"read", "write"}) =>
    /\ \A k \in 1..Len(cleaned_jobs) :
         cleaned_jobs[k].location_state =
           ResolvedState(raw_jobs[cleaned_jobs[k].id].location,
                         raw_jobs[cleaned_jobs[k].id].search_location)
    /\ \A i \in 1..Len(raw_jobs) :
         ( /\ notna(ResolvedState(raw_jobs[i].location, raw_jobs[i].search_location))
           /\ raw_jobs[i].source # Some(Muse)
           /\ ~per_unit(raw_jobs[i]) ) =>
         \E k \in 1..Len(cleaned_jobs) :
           cleaned_jobs[k].job_id = raw_jobs[i].job_id

\* the correction rules in their order: cues, threshold, factor
SalaryRules ==
  << [cues |-> KCues, below |-> 1000, times |-> 1000],
     [cues |-> HourlyCues, below |-> 200, times |-> 2080],
     [cues |-> MonthlyCues, below |-> 20000, times |-> 12],
     [cues |-> WeeklyCues, below |-> 5000, times |-> 52] >>

\* the cue of a rule occurs in the text, whatever the case of the letters
HasCue(text, cues) ==
  IF isna(text) THEN FALSE
  ELSE \E c \in cues : \E i \in 1..Len(val(text)) :
         i + Len(c) - 1 <= Len(val(text))
         /\ Lower(SubSeq(val(text), i, i + Len(c) - 1)) = c

\* the salary bounds after the first n rules, each rule looking at the
\* bounds the rules before it left
CorrectedSalary(text, smin, smax, n) ==
  LET F[m \in 0..n] ==
        IF m = 0 THEN << smin, smax >>
        ELSE LET b == F[m - 1]
                 rule == SalaryRules[m]
                 fires == IF isna(b[1]) THEN FALSE
                          ELSE HasCue(text, rule.cues) /\ val(b[1]) < rule.below
             IN IF fires
                THEN << Some(val(b[1]) * rule.times),
                        IF isna(b[2]) THEN NaN ELSE Some(val(b[2]) * rule.times) >>
                ELSE b
  IN F[n]

\* C15: every row of the cleaned store has the salary_min the four rules,
\* applied in order to the raw bounds, leave, and the salary_max they leave
\* when the raw salary_max is present; "$100k - $130k a year" with 100/130
\* comes out as 100000/130000 and "$25 per hour" with 25 as 52000.
C15_RulesInOrder ==
  clean_ret.status = "success" =>
    \A k \in 1..Len(cleaned_jobs) :
      LET raw == raw_jobs[cleaned_jobs[k].id]
          text == clean_empty_row(raw).salary_text
          want == CorrectedSalary(text, raw.salary_min, raw.salary_max, 4)
      IN /\ cleaned_jobs[k].salary_min = want[1]
         /\ notna(raw.salary_max) => cleaned_jobs[k].salary_max = want[2]
         /\ (raw.salary_text = Some(salK) /\ raw.salary_min = Some(100)
               /\ raw.salary_max = Some(130)) =>
              ( /\ cleaned_jobs[k].salary_min = Some(100000)
                /\ cleaned_jobs[k].salary_max = Some(130000) )
         /\ (raw.salary_text = Some(salHour) /\ raw.salary_min = Some(25)) =>
              cleaned_jobs[k].salary_min = Some(52000)

\* a row on which two rules fired one after the other: "$5k a month" with
\* 4 becomes 4000, then 48000
C15_Witness ==
  /\ clean_ret.status = "success"
  /\ \E k \in 1..Len(cleaned_jobs) :
       /\ raw_jobs[cleaned_jobs[k].id].salary_text = Some(salKMonth)
       /\ raw_jobs[cleaned_jobs[k].id].salary_min = Some(4)
       /\ raw_jobs[cleaned_jobs[k].id].salary_max = Some(34)
       /\ cleaned_jobs[k].salary_min = Some(48000)
       /\ cleaned_jobs[k].salary_max = Some(408000)

\* the records the imputer sees: the rows of the snapshot that are not per
\* unit, with the source as canonicalized and the corrected bounds
ImputerInput(table) ==
  LET kept == SelectSeq(table, LAMBDA r : ~per_unit(clean_empty_row(r)))
  IN [i \in 1..Len(kept) |->
        LET c == clean_empty_row(kept[i])
            b == CorrectedSalary(c.salary_text, c.salary_min, c.salary_max, 4)
        IN [source |-> c.source, salary_min |-> b[1], salary_max |-> b[2]]]

\* the spreads salary_max - salary_min of the records of one source that
\* have both bounds
SourceSpreads(recs, source) ==
  LET both == SelectSeq(recs, LAMBDA r : /\ r.source = source
                                          /\ notna(r.salary_min)
                                          /\ notna(r.salary_max))
  IN [i \in 1..Len(both) |-> val(both[i].salary_max) - val(both[i].salary_min)]

\* the salary_max the imputer is to leave on a record
ImputedMax(recs, r) ==
  IF notna(r.salary_min) /\ isna(r.salary_max)
  THEN LET spreads == SourceSpreads(recs, r.source)
       IN Some(val(r.salary_min) +
               (IF Len(spreads) = 0 THEN 10000 ELSE Median(spreads)))
  ELSE r.salary_max

\* C16: every row of the cleaned store whose record reached the imputer
\* with salary_min alone has salary_max = salary_min + the median spread
\* of its source (10000 when the source has no record with both bounds),
\* and every other row has the salary_max it reached the imputer with.
C16_ImputesMedianSpread ==
  clean_ret.status = "success" =>
    \A k \in 1..Len(cleaned_jobs) :
      LET recs == ImputerInput(raw_jobs)
          c == clean_empty_row(raw_jobs[cleaned_jobs[k].id])
          b == CorrectedSalary(c.salary_text, c.salary_min, c.salary_max, 4)
          r == [source |-> c.source, salary_min |-> b[1], salary_max |-> b[2]]
      IN cleaned_jobs[k].salary_max = ImputedMax(recs, r)

\* C17: a clean_and_load run that cannot read the raw store or cannot
\* write the cleaned store raises, returns no count and leaves the DAG task
\* clean_data failed; after a failed read the cleaned store is the one the
\* run started with.
C17_StoreFailureIsFatal ==
  clean_ret.cause \in {"read", "write"} =>
    /\ clean_ret.status = "raised"
    /\ clean_ret.task_state = "failed"
    /\ clean_ret.cause = "read" => cleaned_jobs = cleaned0

C17_Witness ==
  /\ clean_ret.cause = "read"
  /\ clean_ret.task_state = "failed"
  /\ Len(cleaned0) >= 1
  /\ cleaned_jobs = cleaned0

\* the factors of the four rules, and 1 for a salary no rule touched
RuleFactors == { 1, 1000, 2080, 12, 52 }

\* C18: no row of the cleaned store was rescaled by two rules: its
\* salary_min is the raw salary_min, or that value times the factor of one
\* rule.
C18_AtMostOneRuleFires ==
  clean_ret.status = "success" =>
    \A k \in 1..Len(cleaned_jobs) :
      LET raw == raw_jobs[cleaned_jobs[k].id]
      IN notna(raw.salary_min) =>
           \E f \in RuleFactors :
             cleaned_jobs[k].salary_min = Some(val(raw.salary_min) * f)

\* a salary quoted per week: a weekly cue and no hourly or monthly cue
QuotedPerWeek(text) ==
  /\ HasCue(text, WeeklyCues)
  /\ ~HasCue(text, HourlyCues)
  /\ ~HasCue(text, MonthlyCues)

\* C19: every row of the cleaned store that was quoted per week with a raw
\* salary_min below 5000 has 52 times its raw salary_min, and 52 times its
\* raw salary_max when that is present.
C19_WeeklyTimes52 ==
  clean_ret.status = "success" =>
    \A k \in 1..Len(cleaned_jobs) :
      LET raw == raw_jobs[cleaned_jobs[k].id]
      IN ( /\ QuotedPerWeek(raw.salary_text)
           /\ (IF isna(raw.salary_min) THEN FALSE ELSE val(raw.salary_min) < 5000) ) =>
         /\ cleaned_jobs[k].salary_min = Some(val(raw.salary_min) * 52)
         /\ notna(raw.salary_max) =>
              cleaned_jobs[k].salary_max = Some(val(raw.salary_max) * 52)

\* the categories in table order
CategoryOrder ==
  << <<"F","u","l","l","-","t","i","m","e">>, <<"P","a","r","t","-","t","i","m","e">>, <<"C","o","n","t","r","a","c","t">>, <<"T","e","m","p","o","r","a","r","y">>, <<"I","n","t","e","r","n","s","h","i","p">> >>

\* the keywords of a category
KeywordsOf(category) ==
  LET entry == CHOOSE k \in 1..Len(clean_mappings) : clean_mappings[k][1] = category
  IN { clean_mappings[entry][2][j] : j \in 1..Len(clean_mappings[entry][2]) }

\* the first category in table order that has a keyword in the text
CanonicalJobType(jtype) ==
  LET found == { c \in 1..Len(CategoryOrder) : HasCue(jtype, KeywordsOf(CategoryOrder[c])) }
  IN IF found = {} THEN NaN
     ELSE Some(CategoryOrder[CHOOSE c \in found : \A d \in found : c <= d])

\* C20: every row of the cleaned store has as job_type the first category,
\* in the order Full-time, Part-time, Contract, Temporary, Internship, with
\* a keyword occurring in the raw job_type in any case, and no job_type
\* when the raw value is absent or holds no keyword.
C20_FirstCategoryWins ==
  clean_ret.status = "success" =>
    \A k \in 1..Len(cleaned_jobs) :
      cleaned_jobs[k].job_type =
        CanonicalJobType(raw_jobs[cleaned_jobs[k].id].job_type)

\* "temp contract": the keyword of Temporary comes first in the text, the
\* category Contract comes first in the table
C20_Witness ==
  /\ clean_ret.status = "success"
  /\ \E k \in 1..Len(cleaned_jobs) :
       /\ raw_jobs[cleaned_jobs[k].id].job_type = Some(jtTempContract)
       /\ cleaned_jobs[k].job_type = Some(CategoryOrder[3])

\* C21: after a successful clean_and_load no row of the cleaned store
\* comes from a record whose salary_text holds "per unit" in any case, and
\* every record without that cue that has a resolvable state and is not
\* from Muse has a row for its job_id.
C21_PerUnitDropped ==
  clean_ret.status = "success" =>
    /\ \A k \in 1..Len(cleaned_jobs) :
         ~HasCue(raw_jobs[cleaned_jobs[k].id].salary_text, PerUnitCues)
    /\ \A i \in 1..Len(raw_jobs) :
         ( /\ ~HasCue(raw_jobs[i].salary_text, PerUnitCues)
           /\ Resolvable(clean_empty_row(raw_jobs[i]))
           /\ clean_empty_row(raw_jobs[i]).source # Some(Muse) ) =>
         \E k \in 1..Len(cleaned_jobs) :
           cleaned_jobs[k].job_id = raw_jobs[i].job_id

C21_Witness ==
  /\ clean_ret.status = "success"
  /\ Len(raw_jobs) = 1
  /\ raw_jobs[1].salary_text = Some(salUnitUpper)
  /\ raw_jobs[1].salary_min = Some(20000)
  /\ Resolvable(raw_jobs[1])
  /\ cleaned_jobs = <<>>

\* C27: when clean_and_load has returned and nothing else has run, every
\* job_id of the cleaned store is a job_id of the raw store, the cleaned
\* store has at most as many rows as the raw store, and
\* verify_cleaned_data does not fail with 'more cleaned than raw'.
C27_CleanedWithinRaw ==
  (task = "collect" /\ clean_ret.status = "success") =>
    /\ JobIds(cleaned_jobs) \subseteq JobIds(raw_jobs)
    /\ Len(cleaned_jobs) <= Len(raw_jobs)
    /\ verify_cleaned_data(raw_jobs, cleaned_jobs) # "more_cleaned_than_raw"

C27_Witness ==
  /\ task = "collect" /\ clean_ret.status = "success"
  /\ Len(cleaned_jobs) >= 1
  /\ Len(cleaned_jobs) < Len(raw_jobs)
  /\ verify_cleaned_data(raw_jobs, cleaned_jobs) = "success"

\* a raw record passes all filters: no "per unit" cue, a resolvable
\* state, a source other than Muse
PassesAllFilters(r) ==
  /\ ~HasCue(r.salary_text, PerUnitCues)
  /\ notna(ResolvedState(clean_empty_row(r).location,
                         clean_empty_row(r).search_location))
  /\ r.source # Some(Muse)

\* C28: after a successful clean_and_load every job_id that has a raw
\* candidate passing all filters has exactly one row in the cleaned store,
\* also when a later scraped candidate of that job_id is dropped by a
\* filter.
C28_FinalizerComplete ==
  clean_ret.status = "success" =>
    \A i \in 1..Len(raw_jobs) :
      PassesAllFilters(raw_jobs[i]) =>
        Cardinality({ k \in 1..Len(cleaned_jobs) :
                        cleaned_jobs[k].job_id = raw_jobs[i].job_id }) = 1

C28_Witness ==
  /\ clean_ret.status = "success"
  /\ \E i, j \in 1..Len(raw_jobs) :
       /\ raw_jobs[i].job_id = raw_jobs[j].job_id
       /\ raw_jobs[i].scraped_at < raw_jobs[j].scraped_at
       /\ PassesAllFilters(raw_jobs[i])
       /\ ~PassesAllFilters(raw_jobs[j])
       /\ \E k \in 1..Len(cleaned_jobs) : cleaned_jobs[k].id = i

\* C29: after a successful clean_and_load every row of the cleaned store
\* whose salary_max the imputer filled (absent in the raw record, present
\* in the row) has salary_max >= salary_min.
C29_ImputedMaxAtLeastMin ==
  clean_ret.status = "success" =>
    \A k \in 1..Len(cleaned_jobs) :
      ( /\ isna(raw_jobs[cleaned_jobs[k].id].salary_max)
        /\ notna(cleaned_jobs[k].salary_max) ) =>
      val(cleaned_jobs[k].salary_max) >= val(cleaned_jobs[k].salary_min)

\* the raw records that survive into a cleaned store, in raw order
Survivors(table, cleaned) ==
  LET ids == { cleaned[k].id : k \in 1..Len(cleaned) }
      F[i \in 0..Len(table)] ==
        IF i = 0 THEN <<>>
        ELSE IF i \in ids THEN Append(F[i-1], table[i]) ELSE F[i-1]
  IN F[Len(table)]

\* a published row without the key of its raw row
Content(row) == [f \in (DOMAIN row) \ {"id"} |-> row[f]]

\* clean_and_load succeeds on a raw store
CleanSucceeds(table) == ~SplitRaises(clean_empty_values(read_raw(table)))

\* C30 as stated: the raw store without the records the Finalizer dropped
\* yields, when the cleaning succeeds on it, the same cleaned rows, the
\* imputed salary_max values included.
C30_DependsOnSurvivorsOnly ==
  (clean_ret.status = "success"
     /\ CleanSucceeds(Survivors(raw_jobs, cleaned_jobs))) =>
    \E d \in DerivedStores(Survivors(raw_jobs, cleaned_jobs)) :
      { Content(d[k]) : k \in 1..Len(d) } =
        { Content(cleaned_jobs[k]) : k \in 1..Len(cleaned_jobs) }

\* C30 amended: the raw store without the records the Finalizer dropped
\* yields, when the cleaning succeeds on it, the same cleaned rows up to
\* the salary_max values that the imputer filled.
C30_DependsOnSurvivorsButForImputedMax ==
  (clean_ret.status = "success"
     /\ CleanSucceeds(Survivors(raw_jobs, cleaned_jobs))) =>
    \E d \in DerivedStores(Survivors(raw_jobs, cleaned_jobs)) :
      { Content([d[k] EXCEPT !.salary_max =
            IF isna(Survivors(raw_jobs, cleaned_jobs)[d[k].id].salary_max)
            THEN NaN ELSE @]) : k \in 1..Len(d) } =
        { Content([cleaned_jobs[k] EXCEPT !.salary_max =
            IF isna(raw_jobs[cleaned_jobs[k].id].salary_max)
            THEN NaN ELSE @]) : k \in 1..Len(cleaned_jobs) }

\* a dropped record changed an imputed salary_max: the row is published
\* with a value that the survivors alone do not give it
C30_Witness ==
  /\ clean_ret.status = "success"
  /\ Len(cleaned_jobs) < Len(raw_jobs)
  /\ CleanSucceeds(Survivors(raw_jobs, cleaned_jobs))
  /\ \E k \in 1..Len(cleaned_jobs) :
       /\ isna(raw_jobs[cleaned_jobs[k].id].salary_max)
       /\ notna(cleaned_jobs[k].salary_max)
       /\ \A d \in DerivedStores(Survivors(raw_jobs, cleaned_jobs)) :
            \A m \in 1..Len(d) :
              d[m].job_id = cleaned_jobs[k].job_id =>
                d[m].salary_max # cleaned_jobs[k].salary_max

\* C24: the membership filter looks at job_id alone.  A record of a batch
\* the run has processed whose job_id is that of a row stored before the
\* run, from another source, is not stored: every row with that job_id
\* still has the source of the row ingested first.
C24_KeyedOnJobIdAlone ==
  \A k \in 1..Len(log) : \A m \in 1..Len(json_files[k]) :
    \A i \in 1..Len(raw0) :
      ( /\ json_files[k][m].job_id = raw0[i].job_id
        /\ json_files[k][m].source # raw0[i].source ) =>
      \A j \in 1..Len(raw_jobs) :
        raw_jobs[j].job_id = raw0[i].job_id =>
          (j = i /\ raw_jobs[j].source = raw0[i].source)

\* a run stored rows of a batch and skipped its record from another source
\* with a stored job_id
C24_Witness ==
  /\ pc = "done"
  /\ \E k \in 1..Len(log) : \E m \in 1..Len(json_files[k]) :
       /\ log[k].kind = "inserted"
       /\ notna(json_files[k][m].job_id)
       /\ \E i \in 1..Len(raw0) :
            /\ json_files[k][m].job_id = raw0[i].job_id
            /\ json_files[k][m].source # raw0[i].source

\* C25: at every batch boundary of a loader run and at its end the
\* in-memory ledger holds only job_ids that are stored in the raw store,
\* also after the insert of an earlier batch of the run failed.
C25_LedgerWithinStore ==
  pc \in {"loop", "done"} => existing_set \subseteq JobIds(raw_jobs)

\* C26: when cleanup_json_files deletes the batch files, every record of
\* every file that carries a job_id has a row with that job_id in the raw
\* store, also when the insert of its batch failed.
C26_NoRecordLost ==
  [][ (task = "load" /\ task' = "clean") =>
        \A k \in 1..Len(files) : \A m \in 1..Len(files[k]) :
          notna(files[k][m].job_id) =>
            files[k][m].job_id \in JobIds(raw_jobs) ]_vars

\* the loader has returned from a retry that follows a try terminated
\* after it had committed rows
RetryReturned ==
  pc = "done" /\ attempt.retry /\ Len(raw0) > Len(attempt.raw0)

\* the raw store after one uninterrupted run over the files in which no
\* insert fails
UninterruptedRun(table, fls) ==
  LoadRun(table, fls, [k \in 1..Len(fls) |-> FALSE]).raw_jobs

AllRun ==
  /\ rel.one_run.done /\ rel.two_runs.done
  /\ rel.concat.done /\ rel.reversed.done
NoneFailed ==
  /\ ~rel.one_run.failed /\ ~rel.two_runs.failed
  /\ ~rel.concat.failed /\ ~rel.reversed.failed

====
